---- MODULE Spec2Model ----
(***************************************************************************)
(* Rate limiting and failure isolation of the Fit Agent backend.           *)
(*                                                                         *)
(* The limiter is slowapi's Limiter configured in src/rate_limit.py:       *)
(* fixed-window counters in process memory, key function                   *)
(* get_user_identifier, advisory headers enabled.  It is attached to the   *)
(* two AI plan endpoints by the @limiter.limit decorator in src/api/ai.py. *)
(* No limiter middleware is installed in src/main.py, so routes without    *)
(* the decorator are never evaluated against any limit.                    *)
(***************************************************************************)
EXTENDS Integers, Sequences, FiniteSets, Bags, TLC

VARIABLES now, storage, expirations, admits, reqs, resp, nreq, logins,
          err, log, db, posts, gets, listed

(* now: wall clock in seconds.  storage, expirations: the in-memory        *)
(* counter store.  reqs: the bag of requests in flight.  resp: the         *)
(* response the last step produced, if any.  admits, nreq, logins are      *)
(* history: admissions per counter in its current window, requests         *)
(* received, login attempts per address.  err: the exception the last     *)
(* step's response was rendered from, with the handler chosen and the      *)
(* body it wrote.  log: the records the application's own loggers emitted  *)
(* in the last step.  db: the committed rows of each table, a bag per      *)
(* table.  posts, gets, listed are history: POST and GET requests on the   *)
(* data endpoints that reached the application, per user, and what the     *)
(* last GET returned.                                                      *)
vars == <<now, storage, expirations, admits, reqs, resp, nreq, logins,
          err, log, db, posts, gets, listed>>

(* What the actions on the limiter and on the data endpoints leave alone.  *)
limiter_vars == <<now, storage, expirations, admits, reqs, nreq, logins>>
data_vars == <<db, posts, gets, listed>>

(* ------------------------------ bounds -------------------------------- *)
(* MaxInflight: requests in flight at once; MaxRequests: requests served   *)
(* in one behaviour; MaxTicks, TickStep: how often and how far the clock   *)
(* advances; MaxLogins: login attempts per address in one behaviour;       *)
(* MaxPosts, MaxGets: writes and reads of one user on /api/weight;         *)
(* MaxWrites: writes of one user on all three tables.                      *)

MaxInflight == 2
MaxRequests == 6
MaxTicks == 1
TickStep == 86400
MaxLogins == 11
MaxPosts == 101
MaxGets == 1001
MaxWrites == 2
MaxListRows == 3
MaxLists == 2
MaxActivityRows == 13

(* ----------------------------- constants ------------------------------ *)

Day == 86400
Hour == 3600

NoUser == "none"
Users == {"u1", "u2"}
Loopback == "127.0.0.1"
Addrs == {"203.0.113.7", Loopback}

WorkoutPath == "/api/ai/generate-workout-plan"
NutritionPath == "/api/ai/generate-nutrition-plan"
HealthPath == "/health"
LoginPath == "/auth/jwt/login"
WeightPath == "/api/weight"
MealsPath == "/api/meals"
WorkoutsPath == "/api/workouts"
RecentPath == "/api/recent-activity"
AIPaths == {WorkoutPath, NutritionPath}

(* Rate limit presets; "5/day" is parsed into amount and window seconds.   *)
RATE_LIMITS ==
  [auth_register       |-> [amount |-> 5,   per |-> Hour],
   auth_login          |-> [amount |-> 10,  per |-> Hour],
   auth_reset_password |-> [amount |-> 3,   per |-> Hour],
   ai_workout_plan     |-> [amount |-> 5,   per |-> Day],
   ai_nutrition_plan   |-> [amount |-> 5,   per |-> Day],
   data_post           |-> [amount |-> 100, per |-> Hour],
   data_get            |-> [amount |-> 200, per |-> Hour]]

RATE_LIMIT_EXEMPT_IPS == {"127.0.0.1", "::1"}

(* The limit the decorator binds to each decorated endpoint.               *)
RouteLimit(path) ==
  IF path = WorkoutPath THEN RATE_LIMITS.ai_workout_plan
                        ELSE RATE_LIMITS.ai_nutrition_plan

(* The limiter scope of a decorated endpoint: module.function name.        *)
RouteScope(path) ==
  IF path = WorkoutPath THEN "src.api.ai.create_workout_plan"
                        ELSE "src.api.ai.create_nutrition_plan"

Scopes == {RouteScope(p) : p \in AIPaths}

(* ------------------------- identifier resolver ------------------------ *)

get_remote_address(r) == r.addr

(* request.state.user set to an object that has no id attribute.          *)
NoId == "<object without id>"

(* Variant of get_user_identifier: the request context is not consulted.  *)
get_user_identifier_address_only(r) == get_remote_address(r)

get_user_identifier(r) ==
  IF r.state_user # NoUser /\ r.state_user # NoId
    THEN "user:" \o r.state_user
    ELSE get_remote_address(r)

get_ip_only(r) == get_remote_address(r)

is_exempt_from_rate_limit(r) ==
  \/ r.path = HealthPath
  \/ get_remote_address(r) \in RATE_LIMIT_EXEMPT_IPS

Keys == Addrs \cup {"user:" \o u : u \in Users}

(* ---------------------------- counter store --------------------------- *)

(* Variant of key_for: one counter per limit key, whatever the scope.      *)
key_for_unscoped(key, scope) == <<key, "src.api.ai.create_workout_plan">>

(* The storage key of a counter: one per (limit key, scope).               *)
key_for(key, scope) == <<key, scope>>

CounterKeys == Keys \X Scopes

(* Variant of get: entries never expire.                                   *)
get_no_expiry(st, ex, ck, t) == st[ck]

(* MemoryStorage.get: an expired entry reads as absent.                    *)
get(st, ex, ck, t) == IF ex[ck] <= t THEN 0 ELSE st[ck]

(* MemoryStorage.incr: drop the entry if expired, add one, and start the   *)
(* window when the entry is new.                                           *)
incr_storage(st, ex, ck, t) == [st EXCEPT ![ck] = get(st, ex, ck, t) + 1]

incr_expirations(st, ex, ck, t, per) ==
  IF get(st, ex, ck, t) = 0 THEN [ex EXCEPT ![ck] = t + per] ELSE ex

(* Variants of hit: the comparison made on the count read before the      *)
(* increment, and a strict comparison.                                     *)
hit_stale(count, amount) == count - 1 <= amount

hit_strict(count, amount) == count < amount

(* FixedWindowRateLimiter.hit: the post-increment count against the limit. *)
hit(count, amount) == count <= amount

(* get_window_stats: the remaining quota advertised in the headers.        *)
window_remaining(count, amount) == IF amount - count > 0 THEN amount - count ELSE 0

(* ------------------------------ requests ------------------------------ *)

(* A request in flight.  state_user is request.state.user, which no code   *)
(* of the application assigns; principal is the user the authentication    *)
(* dependency resolves from the credentials and passes to the handler.     *)
(* early and reopened are history: whether the request's counter was under *)
(* quota when the request arrived, and whether the limiter found an        *)
(* exhausted, elapsed window when it counted the request.                  *)
NewReq(path, addr, user, bodyOk) ==
  [pc |-> "deps", path |-> path, addr |-> addr, principal |-> user,
   state_user |-> NoUser, bodyOk |-> bodyOk, key |-> "",
   aiCalled |-> FALSE, early |-> FALSE, reopened |-> FALSE]

NoResp == [status |-> 0]

(* A response, with the request it answers and the provider outcome ("" if *)
(* the provider was not awaited).                                          *)
Response(r, status, remaining, outcome) ==
  [status |-> status, remaining |-> remaining, outcome |-> outcome,
   path |-> r.path, addr |-> r.addr, principal |-> r.principal,
   bodyOk |-> r.bodyOk, key |-> r.key, aiCalled |-> r.aiCalled,
   early |-> r.early, reopened |-> r.reopened]

NoHeader == -1

(* A date the client left out.                                             *)
NoDate == -1

(* Nothing listed yet.                                                     *)
NoList == [limit |-> 0, items |-> <<>>]

Put(b, r) == b (+) SetToBag({r})
Take(b, r) == b (-) SetToBag({r})

(* Texts are sequences of fragments: an f-string is the sequence of its    *)
(* literal parts and interpolated values; None and "" are both empty.      *)
None == <<>>

NoExc ==
  [cls |-> "", message |-> None, user_message |-> None, details |-> {},
   user_message_arg |-> None, status_code |-> 0]

NoBody == [key |-> "", text |-> None]

NoErr == [exc |-> NoExc, handler |-> "", body |-> NoBody]

Init ==
  /\ now = 0
  /\ storage = [ck \in CounterKeys |-> 0]
  /\ expirations = [ck \in CounterKeys |-> 0]
  /\ admits = [ck \in CounterKeys |-> 0]
  /\ reqs = EmptyBag
  /\ resp = NoResp
  /\ nreq = 0
  /\ logins = [a \in Addrs |-> 0]
  /\ err = NoErr
  /\ log = <<>>
  /\ db = [weight_logs |-> EmptyBag, meal_logs |-> EmptyBag,
           workout_sessions |-> EmptyBag]
  /\ listed = NoList
  /\ posts = [u \in Users |-> 0]
  /\ gets = [u \in Users |-> 0]

(* ------------------------- responses and errors ----------------------- *)

(* The domain error classes of src/exceptions.py, all direct subclasses of *)
(* FitAgentException.                                                      *)
DomainKinds ==
  {"ValidationError", "AuthenticationError", "AuthorizationError",
   "NotFoundError", "ConflictError", "BusinessLogicError", "AIServiceError",
   "ExternalServiceError", "RateLimitError"}

(* FitAgentException.__init__ for class cls: user_message falls back to    *)
(* message, details to the empty dict (a set of <<key, value>> pairs).     *)
(* user_message_arg is history: the argument as the caller passed it.      *)
FitAgentException(cls, message, user_message, details) ==
  [cls |-> cls, message |-> message,
   user_message |-> IF user_message # None THEN user_message ELSE message,
   details |-> details, user_message_arg |-> user_message, status_code |-> 0]

(* HTTPException and its subclasses carry a status code and a detail.      *)
HTTPException(cls, status_code, detail) ==
  [cls |-> cls, message |-> detail, user_message |-> None, details |-> {},
   user_message_arg |-> None, status_code |-> status_code]

(* Any other exception, with its text.                                     *)
Exception(cls, text) ==
  [cls |-> cls, message |-> text, user_message |-> None, details |-> {},
   user_message_arg |-> None, status_code |-> 0]

(* The method resolution order of an exception class, up to Exception.     *)
mro(cls) ==
  CASE cls \in DomainKinds         -> <<cls, "FitAgentException", "Exception">>
    [] cls = "RateLimitExceeded"   -> <<cls, "HTTPException", "Exception">>
    [] cls = "Exception"           -> <<cls>>
    [] OTHER                       -> <<cls, "Exception">>

(* The handlers registered on the application: slowapi's for               *)
(* RateLimitExceeded, one per imported domain class, the base-class        *)
(* handler, and FastAPI's own two.                                         *)
exception_handlers ==
  [RateLimitExceeded      |-> "_rate_limit_exceeded_handler",
   ValidationError        |-> "validation_error_handler",
   AuthenticationError    |-> "auth_error_handler",
   AuthorizationError     |-> "authz_error_handler",
   NotFoundError          |-> "not_found_handler",
   ConflictError          |-> "conflict_handler",
   BusinessLogicError     |-> "business_logic_handler",
   RateLimitError         |-> "rate_limit_handler",
   AIServiceError         |-> "ai_service_handler",
   FitAgentException      |-> "generic_fit_agent_handler",
   HTTPException          |-> "http_exception_handler",
   RequestValidationError |-> "request_validation_exception_handler"]

(* Variant of lookup_handler: the most general registered class wins.      *)
lookup_handler_base_first(cls) ==
  LET c   == mro(cls)
      reg == {i \in DOMAIN c : c[i] \in DOMAIN exception_handlers}
  IN IF reg = {} THEN "ServerErrorMiddleware"
     ELSE exception_handlers[c[CHOOSE i \in reg : \A j \in reg : j <= i]]

(* The handler of an exception of class cls: that of the first class in    *)
(* its resolution order that has one, else the server-error fallback.      *)
lookup_handler(cls) ==
  LET c   == mro(cls)
      reg == {i \in DOMAIN c : c[i] \in DOMAIN exception_handlers}
  IN IF reg = {} THEN "ServerErrorMiddleware"
     ELSE exception_handlers[c[CHOOSE i \in reg : \A j \in reg : i <= j]]

(* The status each handler answers with; FastAPI's HTTPException handler   *)
(* uses the exception's own status code.                                   *)
handler_status(h, status_code) ==
  CASE h = "validation_error_handler"             -> 400
    [] h = "auth_error_handler"                   -> 401
    [] h = "authz_error_handler"                  -> 403
    [] h = "not_found_handler"                    -> 404
    [] h = "conflict_handler"                     -> 409
    [] h = "business_logic_handler"               -> 422
    [] h = "rate_limit_handler"                   -> 429
    [] h = "ai_service_handler"                   -> 503
    [] h = "generic_fit_agent_handler"            -> 500
    [] h = "_rate_limit_exceeded_handler"         -> 429
    [] h = "http_exception_handler"               -> status_code
    [] h = "request_validation_exception_handler" -> 422
    [] OTHER                                      -> 500

(* The body each handler writes.                                           *)
handler_body(h, exc) ==
  CASE h \in {"validation_error_handler", "auth_error_handler",
              "authz_error_handler", "not_found_handler", "conflict_handler",
              "business_logic_handler", "rate_limit_handler",
              "ai_service_handler"}
           -> [key |-> "detail", text |-> exc.user_message]
    [] h = "generic_fit_agent_handler"
           -> [key |-> "detail", text |-> <<"An unexpected error occurred">>]
    [] h = "_rate_limit_exceeded_handler"
           -> [key |-> "error", text |-> <<"Rate limit exceeded: ">> \o exc.message]
    [] h = "http_exception_handler"
           -> [key |-> "detail", text |-> exc.message]
    [] h = "request_validation_exception_handler"
           -> [key |-> "detail", text |-> exc.message]
    [] OTHER
           -> [key |-> "text", text |-> <<"Internal Server Error">>]

(* logger.<level>(msg, extra={"details": exc.details}) of src.main.        *)
LogRecord(logger, level, msg, extra) ==
  [logger |-> logger, level |-> level, msg |-> msg, extra |-> extra]

DetailsExtra(details) == {<<"details." \o d[1], d[2]>> : d \in details}

(* The records each handler of main.py logs.                               *)
handler_log(h, exc) ==
  CASE h = "validation_error_handler"
           -> <<LogRecord("src.main", "WARNING",
                          <<"Validation error: ">> \o exc.message,
                          DetailsExtra(exc.details))>>
    [] h = "auth_error_handler"
           -> <<LogRecord("src.main", "WARNING",
                          <<"Authentication error: ">> \o exc.message, {})>>
    [] h = "authz_error_handler"
           -> <<LogRecord("src.main", "WARNING",
                          <<"Authorization error: ">> \o exc.message, {})>>
    [] h = "conflict_handler"
           -> <<LogRecord("src.main", "WARNING",
                          <<"Conflict error: ">> \o exc.message, {})>>
    [] h = "rate_limit_handler"
           -> <<LogRecord("src.main", "WARNING",
                          <<"Rate limit exceeded: ">> \o exc.message, {})>>
    [] h = "ai_service_handler"
           -> <<LogRecord("src.main", "ERROR",
                          <<"AI service error: ">> \o exc.message,
                          DetailsExtra(exc.details))>>
    [] h = "generic_fit_agent_handler"
           -> <<LogRecord("src.main", "ERROR",
                          <<"Unhandled FitAgentException: ">> \o exc.message,
                          DetailsExtra(exc.details))>>
    [] OTHER -> <<>>

(* log_rate_limit_hit: one WARNING record with the identifier, the path,   *)
(* the limit text it is given and dict(request.headers), the request's     *)
(* headers as received (a set of <<name, value>> pairs).                   *)
log_rate_limit_hit(request, limit) ==
  LogRecord("src.rate_limit", "WARNING", <<"Rate limit exceeded">>,
            {<<"identifier", get_user_identifier(request)>>,
             <<"path", request.path>>,
             <<"limit", limit>>}
              \cup {<<"headers." \o h[1], h[2]>> : h \in request.headers})

(* An exception leaves a route: the handler looked up for its class        *)
(* renders the response.                                                   *)
dispatch(exc) ==
  LET h == lookup_handler(exc.cls)
  IN [status |-> handler_status(h, exc.status_code),
      err    |-> [exc |-> exc, handler |-> h, body |-> handler_body(h, exc)],
      log    |-> handler_log(h, exc)]

(* Variant of exception_status: no handler registered for the limiter's    *)
(* exception.                                                              *)
exception_status_unregistered(kind) ==
  CASE kind = "AIServiceError"         -> 503
    [] kind = "HTTPException401"       -> 401
    [] kind = "RequestValidationError" -> 422
    [] OTHER                           -> 500

(* Status of the response produced for an exception leaving the endpoint:  *)
(* the handlers registered in main.py, FastAPI's own handlers for          *)
(* HTTPException and RequestValidationError, and the server-error fallback *)
(* for anything without a handler.                                         *)
exception_status(kind) ==
  CASE kind = "HTTPException401" -> dispatch(HTTPException("HTTPException", 401, None)).status
    [] OTHER                     -> dispatch(Exception(kind, None)).status

(* The limiter is built with headers_enabled=True.                         *)
headers_enabled == TRUE

(* Neither AI endpoint declares a `response` parameter, and both return    *)
(* the provider's structured output, not a Response object.                *)
has_response_param(path) == FALSE

(* What leaves the decorated endpoint once the provider call has ended.    *)
(* On success the decorator injects the quota headers into the handler's   *)
(* Response or its `response` argument; with neither it raises.            *)
endpoint_result(path, outcome) ==
  IF outcome = "ok"
    THEN IF headers_enabled /\ ~has_response_param(path) THEN "Exception" ELSE "ok"
    ELSE "AIServiceError"

(* Variant of plan_generation_failed: no user-facing message is given.    *)
plan_generation_failed_bare(path, user, e) ==
  FitAgentException("AIServiceError",
    <<IF path = WorkoutPath THEN "Workout plan generation failed: "
                            ELSE "Nutrition plan generation failed: ", e>>,
    None, {<<"user_id", user>>})

(* The except clause of both plan endpoints: an exception with text e      *)
(* that is not an AIServiceError is replaced by an AIServiceError with a   *)
(* fixed user-facing message.                                              *)
plan_generation_failed(path, user, e) ==
  FitAgentException("AIServiceError",
    <<IF path = WorkoutPath THEN "Workout plan generation failed: "
                            ELSE "Nutrition plan generation failed: ", e>>,
    <<IF path = WorkoutPath
        THEN "Failed to generate workout plan. Please try again later."
        ELSE "Failed to generate nutrition plan. Please try again later.">>,
    {<<"user_id", user>>})

(* logger.exception(...) of the same except clause.                        *)
plan_generation_log(path, user) ==
  LogRecord("src.api.ai", "ERROR",
    <<IF path = WorkoutPath THEN "Workout plan generation failed for user "
                            ELSE "Nutrition plan generation failed for user ",
      user>>, {})

(* What the decorator raises when it cannot inject the quota headers.      *)
inject_headers_error ==
  Exception("Exception",
    <<"parameter response must be an instance of starlette.responses.Response">>)

(* The limiter's exception for an exceeded limit, with the limit's text.   *)
RateLimitExceeded(lim) ==
  HTTPException("RateLimitExceeded", 429,
    <<ToString(lim.amount), IF lim.per = Day THEN " per 1 day" ELSE " per 1 hour">>)

(* Variant of async_wrapper: the handler is awaited before the outcome of  *)
(* the limit check is raised.                                              *)
async_wrapper_check_late(r, admitted, remaining) ==
  IF admitted
    THEN [cont |-> SetToBag({[r EXCEPT !.pc = "handler", !.aiCalled = TRUE]}),
          resp |-> [status |-> 0]]
    ELSE [cont |-> EmptyBag,
          resp |-> [status |-> 429, remaining |-> remaining, outcome |-> "",
                    path |-> r.path, addr |-> r.addr, principal |-> r.principal,
                    bodyOk |-> r.bodyOk, key |-> r.key, aiCalled |-> TRUE,
                    early |-> r.early, reopened |-> r.reopened]]

(* The decorator around the endpoint: the limit check comes first and a    *)
(* failed check raises RateLimitExceeded before the handler is awaited.    *)
(* Yields the request as it continues in flight and the response, if any.  *)
async_wrapper(r, admitted, remaining) ==
  IF admitted
    THEN [cont |-> SetToBag({[r EXCEPT !.pc = "handler", !.aiCalled = TRUE]}),
          resp |-> NoResp]
    ELSE [cont |-> EmptyBag,
          resp |-> Response(r, exception_status("RateLimitExceeded"), remaining, "")]

(* Variant of solve_dependencies: the endpoint is called unconditionally.  *)
solve_dependencies_skipped(r) == ""

(* What the framework does before it calls the endpoint, which is the      *)
(* function the limiter's decorator returned: the authentication           *)
(* dependency raises 401 without a principal, and an invalid body is       *)
(* reported as a validation error; "" when the endpoint is called.         *)
solve_dependencies(r) ==
  IF r.principal = NoUser THEN "HTTPException401"
  ELSE IF ~r.bodyOk THEN "RequestValidationError"
  ELSE ""

(* ------------------------------ actions ------------------------------- *)

(* A request for an AI endpoint arrives; its dependencies (authentication, *)
(* body validation) are being resolved.                                    *)
Receive(path, addr, user, bodyOk) ==
  LET r  == NewReq(path, addr, user, bodyOk)
      ck == key_for(get_user_identifier(r), RouteScope(path))
  IN
  /\ BagCardinality(reqs) < MaxInflight
  /\ nreq < MaxRequests
  /\ reqs' = Put(reqs, [r EXCEPT !.early =
                  get(storage, expirations, ck, now) < RouteLimit(path).amount])
  /\ resp' = NoResp
  /\ nreq' = nreq + 1
  /\ err' = NoErr
  /\ log' = <<>>
  /\ UNCHANGED <<now, storage, expirations, admits, logins>>
  /\ UNCHANGED data_vars

(* Dependencies are resolved and the decorated endpoint is called: 401     *)
(* without a principal, 422 on an invalid body, otherwise the limiter      *)
(* counts the request and admits or rejects it.                            *)
Enter(r) ==
  LET key    == get_user_identifier(r)
      ck     == key_for(key, RouteScope(r.path))
      lim    == RouteLimit(r.path)
      st2    == incr_storage(storage, expirations, ck, now)
      ex2    == incr_expirations(storage, expirations, ck, now, lim.per)
      stale  == expirations[ck] > 0 /\ expirations[ck] <= now
                  /\ storage[ck] >= lim.amount
      r2     == [r EXCEPT !.key = key, !.reopened = stale]
      ok     == hit(st2[ck], lim.amount)
      w      == async_wrapper(r2, ok,
                              window_remaining(get(st2, ex2, ck, now), lim.amount))
      before == IF get(storage, expirations, ck, now) = 0 THEN 0 ELSE admits[ck]
  IN
  /\ BagIn(r, reqs)
  /\ r.pc = "deps"
  /\ IF solve_dependencies(r) = "HTTPException401"
       THEN /\ reqs' = Take(reqs, r)
            /\ resp' = Response(r, exception_status("HTTPException401"), NoHeader, "")
            /\ err' = dispatch(HTTPException("HTTPException", 401, <<"Unauthorized">>)).err
            /\ log' = <<>>
            /\ UNCHANGED <<storage, expirations, admits>>
       ELSE IF solve_dependencies(r) = "RequestValidationError"
       THEN /\ reqs' = Take(reqs, r)
            /\ resp' = Response(r, exception_status("RequestValidationError"), NoHeader, "")
            /\ err' = dispatch(Exception("RequestValidationError",
                                         <<"request body is not valid">>)).err
            /\ log' = <<>>
            /\ UNCHANGED <<storage, expirations, admits>>
       ELSE /\ storage' = st2
            /\ expirations' = ex2
            /\ admits' = [admits EXCEPT ![ck] = before + IF ok THEN 1 ELSE 0]
            /\ reqs' = Take(reqs, r) (+) w.cont
            /\ resp' = w.resp
            /\ err' = IF ok THEN NoErr ELSE dispatch(RateLimitExceeded(lim)).err
            /\ log' = IF ok THEN <<>> ELSE dispatch(RateLimitExceeded(lim)).log
  /\ UNCHANGED <<now, nreq, logins>>
  /\ UNCHANGED data_vars

(* The provider call of an admitted request ends (outcome "ok", a typed    *)
(* AIServiceError, or any other exception) and the response is produced.   *)
Complete(r, outcome) ==
  LET res == endpoint_result(r.path, outcome)
      lim == RouteLimit(r.path)
      ck  == key_for(r.key, RouteScope(r.path))
      failed == plan_generation_failed(r.path, r.principal, outcome)
  IN
  /\ BagIn(r, reqs)
  /\ r.pc = "handler"
  /\ reqs' = Take(reqs, r)
  /\ resp' = IF res = "ok"
               THEN Response(r, 200, window_remaining(get(storage, expirations, ck, now),
                                                      lim.amount), outcome)
               ELSE Response(r, exception_status(res), NoHeader, outcome)
  /\ err' = CASE res = "ok"        -> NoErr
              [] res = "Exception" -> dispatch(inject_headers_error).err
              [] OTHER             -> dispatch(failed).err
  /\ log' = CASE res = "ok"        -> <<>>
              [] res = "Exception" -> dispatch(inject_headers_error).log
              [] OTHER             -> <<plan_generation_log(r.path, r.principal)>>
                                        \o dispatch(failed).log
  /\ UNCHANGED <<now, storage, expirations, admits, nreq, logins>>
  /\ UNCHANGED data_vars

(* GET /health: not decorated, answered by health_check.                   *)
HealthCheck(addr) ==
  /\ nreq < MaxRequests
  /\ resp' = Response([NewReq(HealthPath, addr, NoUser, TRUE) EXCEPT !.pc = "handler"],
                      200, NoHeader, "")
  /\ nreq' = nreq + 1
  /\ err' = NoErr
  /\ log' = <<>>
  /\ UNCHANGED <<now, storage, expirations, admits, reqs, logins>>
  /\ UNCHANGED data_vars

(* Wall-clock time passes.                                                 *)
Tick ==
  /\ now < MaxTicks * TickStep
  /\ now' = now + TickStep
  /\ resp' = NoResp
  /\ err' = NoErr
  /\ log' = <<>>
  /\ UNCHANGED <<storage, expirations, admits, reqs, nreq, logins>>
  /\ UNCHANGED data_vars

(* POST /auth/jwt/login: the auth library's route, included undecorated.   *)
Login(addr, credsOk) ==
  /\ logins[addr] < MaxLogins
  /\ logins' = [logins EXCEPT ![addr] = @ + 1]
  /\ resp' = Response(NewReq(LoginPath, addr, NoUser, credsOk),
                      IF credsOk THEN 200 ELSE 400, NoHeader, "")
  /\ err' = IF credsOk THEN NoErr
            ELSE dispatch(HTTPException("HTTPException", 400,
                                        <<"LOGIN_BAD_CREDENTIALS">>)).err
  /\ log' = <<>>
  /\ UNCHANGED <<now, storage, expirations, admits, reqs, nreq>>
  /\ UNCHANGED data_vars

(* What awaiting the provider can end in: a plan, or an exception of the   *)
(* provider's client with its text.  Nothing below the endpoints raises    *)
(* AIServiceError, so their `except AIServiceError: raise` is never taken. *)
ProviderErrors == {"ReadTimeout('')", "status_code: 401, invalid x-api-key"}

AIOutcomes == {"ok"} \cup ProviderErrors

(* Authenticated callers of the workout-plan endpoint, health probes and   *)
(* the passage of time.                                                    *)
Next ==
  \/ \E a \in Addrs, u \in Users : Receive(WorkoutPath, a, u, TRUE)
  \/ \E r \in BagToSet(reqs) : Enter(r)
  \/ \E r \in BagToSet(reqs), o \in AIOutcomes : Complete(r, o)
  \/ \E a \in Addrs : HealthCheck(a)
  \/ Tick

Spec == Init /\ [][Next]_vars

(* One caller of both plan endpoints from both addresses, in one window.   *)
NextPlans ==
  \/ \E p \in AIPaths, a \in Addrs : Receive(p, a, "u1", TRUE)
  \/ \E r \in BagToSet(reqs) : Enter(r)
  \/ \E r \in BagToSet(reqs), o \in AIOutcomes : Complete(r, o)

SpecPlans == Init /\ [][NextPlans]_vars

(* One user calling the workout-plan endpoint, from either address.        *)
NextOneUser ==
  \/ \E a \in Addrs : Receive(WorkoutPath, a, "u1", TRUE)
  \/ \E r \in BagToSet(reqs) : Enter(r)
  \/ \E r \in BagToSet(reqs), o \in AIOutcomes : Complete(r, o)
  \/ Tick

SpecOneUser == Init /\ [][NextOneUser]_vars

(* Callers of the workout-plan endpoint from one address, with and without *)
(* credentials, with valid and invalid bodies.                             *)
NextGate ==
  \/ \E u \in {"u1", NoUser}, b \in BOOLEAN :
       Receive(WorkoutPath, "203.0.113.7", u, b)
  \/ \E r \in BagToSet(reqs) : Enter(r)
  \/ \E r \in BagToSet(reqs), o \in AIOutcomes : Complete(r, o)

SpecGate == Init /\ [][NextGate]_vars

(* Login attempts.                                                         *)
NextAuth ==
  \/ \E a \in Addrs, c \in BOOLEAN : Login(a, c)
  \/ Tick

SpecAuth == Init /\ [][NextAuth]_vars

(* The resolver on every request context: one request whose context       *)
(* carries no user, a user with an id, or an object without one, is taken  *)
(* through the limiter and the endpoint.                                   *)
InitResolver ==
  /\ now = 0
  /\ storage = [ck \in CounterKeys |-> 0]
  /\ expirations = [ck \in CounterKeys |-> 0]
  /\ admits = [ck \in CounterKeys |-> 0]
  /\ \E p \in AIPaths, a \in Addrs, u \in Users, su \in Users \cup {NoUser, NoId} :
       reqs = SetToBag({[NewReq(p, a, u, TRUE) EXCEPT !.state_user = su,
                                                     !.early = TRUE]})
  /\ resp = NoResp
  /\ nreq = 1
  /\ logins = [a \in Addrs |-> 0]
  /\ err = NoErr
  /\ log = <<>>
  /\ db = [weight_logs |-> EmptyBag, meal_logs |-> EmptyBag,
           workout_sessions |-> EmptyBag]
  /\ listed = NoList
  /\ posts = [u \in Users |-> 0]
  /\ gets = [u \in Users |-> 0]

NextResolver ==
  \/ \E r \in BagToSet(reqs) : Enter(r)
  \/ \E r \in BagToSet(reqs), o \in AIOutcomes : Complete(r, o)

SpecResolver == InitResolver /\ [][NextResolver]_vars

(* --------------------------- raising handlers ------------------------- *)

(* Technical messages, user-facing messages and details an error can be    *)
(* constructed with.                                                       *)
Messages == {<<"duplicate key value violates constraint uq_users_email">>,
             <<"row 42 of table weight_logs not found">>}
UserMessages == {<<"Please check your input.">>, <<"Something went wrong.">>}
DetailSets == {{}, {<<"user_id", "u1">>}}

(* A route handler raises a domain error (or the base class itself) and    *)
(* the application renders it.  Today only the plan endpoints raise one,   *)
(* an AIServiceError; the dispatch is the same for any route.              *)
RaiseDomainError(cls, message, user_message, details) ==
  LET r == [NewReq(WeightPath, "203.0.113.7", "u1", TRUE) EXCEPT !.pc = "handler"]
      d == dispatch(FitAgentException(cls, message, user_message, details))
  IN
  /\ resp' = Response(r, d.status, NoHeader, "")
  /\ err' = d.err
  /\ log' = d.log
  /\ UNCHANGED limiter_vars
  /\ UNCHANGED data_vars

NextErrors ==
  \E cls \in DomainKinds \cup {"FitAgentException"}, m \in Messages,
     um \in {None} \cup UserMessages, d \in DetailSets :
    RaiseDomainError(cls, m, um, d)

SpecErrors == Init /\ [][NextErrors]_vars

(* ---------------------------- data endpoints -------------------------- *)

(* The three tables the data endpoints write and read.                     *)
Tables == {"weight_logs", "meal_logs", "workout_sessions"}

(* The path of each table's endpoints.                                     *)
TablePath(table) ==
  CASE table = "weight_logs" -> WeightPath
    [] table = "meal_logs"   -> MealsPath
    [] OTHER                 -> WorkoutsPath

(* A request body as the client sends it: its date (completed_date for a   *)
(* workout; NoDate when left out), its weight_lbs, and a user_id field,    *)
(* which no create schema declares (NoUser when the client sends none).    *)
Body(date, weight_lbs, user_id) ==
  [date |-> date, weight_lbs |-> weight_lbs, user_id |-> user_id]

(* WeightLogCreate, MealLogCreate, WorkoutSessionCreate: date is required  *)
(* in the first two, every other field is optional and unconstrained.      *)
validate_body(table, body) ==
  table = "workout_sessions" \/ body.date # NoDate

(* Variant of new_row: the owner is taken from the body when it names one. *)
new_row_owner_from_body(table, user, body, t) ==
  LET owner == IF body.user_id # NoUser THEN body.user_id ELSE user
  IN CASE table = "weight_logs"
            -> [user_id |-> owner, date |-> body.date, weight_lbs |-> body.weight_lbs]
       [] table = "meal_logs"
            -> [user_id |-> owner, date |-> body.date]
       [] OTHER
            -> [user_id |-> owner,
                completed_date |-> IF body.date # NoDate THEN body.date ELSE t]

(* The row each endpoint builds: user_id is the principal's id, and a      *)
(* workout without completed_date gets the current time t.                 *)
new_row(table, user, body, t) ==
  CASE table = "weight_logs"
         -> [user_id |-> user, date |-> body.date, weight_lbs |-> body.weight_lbs]
    [] table = "meal_logs"
         -> [user_id |-> user, date |-> body.date]
    [] OTHER
         -> [user_id |-> user,
             completed_date |-> IF body.date # NoDate THEN body.date ELSE t]

(* The column each list query orders by.                                   *)
order_key(table, row) ==
  IF table = "workout_sessions" THEN row.completed_date ELSE row.date

(* What the database session can raise, with its text.                     *)
DbErrors == {"(sqlite3.OperationalError) database is locked",
             "(sqlite3.IntegrityError) NOT NULL constraint failed: weight_logs.user_id"}

(* The message prefixes of the except clauses.                             *)
write_prefix(table) ==
  CASE table = "weight_logs" -> "Failed to log weight: "
    [] table = "meal_logs"   -> "Failed to log meal: "
    [] OTHER                 -> "Failed to log workout: "

read_prefix(table) ==
  CASE table = "weight_logs" -> "Failed to fetch weight logs: "
    [] table = "meal_logs"   -> "Failed to fetch meal logs: "
    [] OTHER                 -> "Failed to fetch workout sessions: "

(* The except clause of a data endpoint: any exception with text e becomes *)
(* an HTTPException 500 whose detail ends in that text.                    *)
data_failure(prefix, e) == HTTPException("HTTPException", 500, <<prefix, e>>)

(* POST /api/weight, /api/meals, /api/workouts (log_weight, log_meal,      *)
(* log_workout): not decorated.  401 without a principal, 422 when the     *)
(* body does not fit the schema; otherwise the row is added and committed, *)
(* then refreshed.  dbErr is "" or the text of the exception the session   *)
(* raises in commit or in refresh (at); the except clause rolls back,      *)
(* which undoes an uncommitted row only.                                   *)
DataWrite(table, user, addr, body, dbErr, at) ==
  LET bodyOk == validate_body(table, body)
      r   == [NewReq(TablePath(table), addr, user, bodyOk) EXCEPT !.pc = "handler"]
      row == new_row(table, user, body, now)
      d   == CASE user = NoUser
                    -> dispatch(HTTPException("HTTPException", 401, <<"Unauthorized">>))
               [] ~bodyOk
                    -> dispatch(Exception("RequestValidationError",
                                          <<"request body is not valid">>))
               [] OTHER
                    -> dispatch(data_failure(write_prefix(table), dbErr))
  IN
  /\ posts' = IF user = NoUser THEN posts ELSE [posts EXCEPT ![user] = @ + 1]
  /\ IF user # NoUser /\ bodyOk /\ dbErr = ""
       THEN /\ db' = [db EXCEPT ![table] = Put(@, row)]
            /\ resp' = Response(r, 200, NoHeader, "ok")
            /\ err' = NoErr
       ELSE /\ db' = IF user # NoUser /\ bodyOk /\ at = "refresh"
                       THEN [db EXCEPT ![table] = Put(@, row)] ELSE db
            /\ resp' = Response(r, d.status, NoHeader,
                                IF user # NoUser /\ bodyOk THEN dbErr ELSE "")
            /\ err' = d.err
  /\ log' = <<>>
  /\ UNCHANGED <<gets, listed>>
  /\ UNCHANGED limiter_vars

(* The number of rows of bag b that belong to the set S.                   *)
RECURSIVE BagCount(_, _)
BagCount(b, S) ==
  IF S = {} THEN 0
  ELSE LET x == CHOOSE y \in S : TRUE
       IN CopiesIn(x, b) + BagCount(b, S \ {x})

Occurrences(s, x) == Cardinality({i \in DOMAIN s : s[i] = x})

(* LIMIT as the configured database (SQLite) applies it to n rows: a       *)
(* negative limit is no limit.                                             *)
sql_limit(n, limit) == IF limit < 0 \/ n < limit THEN n ELSE limit

(* Variant of select_rows: no where clause on the owner.                   *)
select_rows_any_owner(table, user, limit) ==
  LET own == BagToSet(db[table])
      n   == sql_limit(BagCount(db[table], own), limit)
  IN {s \in [1..n -> own] :
        /\ \A i \in 1..(n - 1) : order_key(table, s[i]) >= order_key(table, s[i + 1])
        /\ \A x \in own : Occurrences(s, x) <= CopiesIn(x, db[table])
        /\ \A x \in own : Occurrences(s, x) < CopiesIn(x, db[table])
                           => (n = 0 \/ order_key(table, x) <= order_key(table, s[n]))}

(* select(T).where(T.user_id == user).order_by(key.desc()).limit(limit):   *)
(* every sequence the database may return; rows with equal keys come in    *)
(* any order.                                                              *)
select_rows(table, user, limit) ==
  LET own == {x \in BagToSet(db[table]) : x.user_id = user}
      n   == sql_limit(BagCount(db[table], own), limit)
  IN {s \in [1..n -> own] :
        /\ \A i \in 1..(n - 1) : order_key(table, s[i]) >= order_key(table, s[i + 1])
        /\ \A x \in own : Occurrences(s, x) <= CopiesIn(x, db[table])
        /\ \A x \in own : Occurrences(s, x) < CopiesIn(x, db[table])
                           => (n = 0 \/ order_key(table, x) <= order_key(table, s[n]))}

(* What a listed record shows of a row: its table, its date and its owner. *)
Items(table, s) ==
  [i \in 1..Len(s) |->
     [type |-> table, date |-> order_key(table, s[i]), user_id |-> s[i].user_id]]

(* GET /api/weight, /api/meals, /api/workouts (get_weight_logs,            *)
(* get_meal_logs, get_workout_sessions): not decorated.  The query is the  *)
(* only statement in the try block; limit is the query parameter.          *)
DataRead(table, user, addr, limit, dbErr) ==
  LET r == [NewReq(TablePath(table), addr, user, TRUE) EXCEPT !.pc = "handler"]
      d == IF user = NoUser
             THEN dispatch(HTTPException("HTTPException", 401, <<"Unauthorized">>))
             ELSE dispatch(data_failure(read_prefix(table), dbErr))
  IN
  /\ gets' = IF user = NoUser THEN gets ELSE [gets EXCEPT ![user] = @ + 1]
  /\ IF user # NoUser /\ dbErr = ""
       THEN /\ resp' = Response(r, 200, NoHeader, "ok")
            /\ err' = NoErr
            /\ \E s \in select_rows(table, user, limit) :
                 listed' = [limit |-> limit, items |-> Items(table, s)]
       ELSE /\ resp' = Response(r, d.status, NoHeader,
                                IF user # NoUser THEN dbErr ELSE "")
            /\ err' = d.err
            /\ listed' = [limit |-> limit, items |-> <<>>]
  /\ log' = <<>>
  /\ UNCHANGED <<db, posts>>
  /\ UNCHANGED limiter_vars

(* The limits of get_recent_activity: rows per table, activities in all.   *)
RecentPerTable == 5
RecentTotal == 10

Remove(s, i) == SubSeq(s, 1, i - 1) \o SubSeq(s, i + 1, Len(s))

(* Variant of sort_by_date_desc: the list is left as it was built.         *)
sort_by_date_desc_skipped(s) == s

(* activities.sort(key=date, reverse=True): stable, so activities of equal *)
(* date keep the order in which they were appended.                        *)
RECURSIVE sort_by_date_desc(_)
sort_by_date_desc(s) ==
  IF s = <<>> THEN <<>>
  ELSE LET i == CHOOSE k \in DOMAIN s :
                  /\ \A j \in DOMAIN s : s[j].date <= s[k].date
                  /\ \A j \in 1..(k - 1) : s[j].date < s[k].date
       IN <<s[i]>> \o sort_by_date_desc(Remove(s, i))

(* GET /api/recent-activity, get_recent_activity: the newest rows of each  *)
(* table, appended workouts first, then meals, then weight logs, sorted    *)
(* and cut.                                                                *)
RecentActivity(user, addr, dbErr) ==
  LET r == [NewReq(RecentPath, addr, user, TRUE) EXCEPT !.pc = "handler"]
      d == IF user = NoUser
             THEN dispatch(HTTPException("HTTPException", 401, <<"Unauthorized">>))
             ELSE dispatch(data_failure("Failed to fetch recent activity: ", dbErr))
  IN
  /\ gets' = IF user = NoUser THEN gets ELSE [gets EXCEPT ![user] = @ + 1]
  /\ IF user # NoUser /\ dbErr = ""
       THEN /\ resp' = Response(r, 200, NoHeader, "ok")
            /\ err' = NoErr
            /\ \E w \in select_rows("workout_sessions", user, RecentPerTable),
                  m \in select_rows("meal_logs", user, RecentPerTable),
                  g \in select_rows("weight_logs", user, RecentPerTable) :
                 LET activities == sort_by_date_desc(
                                     Items("workout_sessions", w)
                                       \o Items("meal_logs", m)
                                       \o Items("weight_logs", g))
                 IN listed' = [limit |-> RecentTotal,
                               items |-> SubSeq(activities, 1,
                                           IF Len(activities) < RecentTotal
                                             THEN Len(activities) ELSE RecentTotal)]
       ELSE /\ resp' = Response(r, d.status, NoHeader,
                                IF user # NoUser THEN dbErr ELSE "")
            /\ err' = d.err
            /\ listed' = [limit |-> RecentTotal, items |-> <<>>]
  /\ log' = <<>>
  /\ UNCHANGED <<db, posts>>
  /\ UNCHANGED limiter_vars

(* One user writing weight logs, the database failing at will.             *)
NextData ==
  \E e \in {""} \cup DbErrors, at \in {"commit", "refresh"} :
    /\ posts["u1"] < MaxPosts
    /\ DataWrite("weight_logs", "u1", "203.0.113.7", Body(1, 150, NoUser), e, at)

SpecData == Init /\ [][NextData]_vars

(* One user reading weight logs, the database failing at will.             *)
NextReads ==
  \E e \in {""} \cup DbErrors :
    /\ gets["u1"] < MaxGets
    /\ DataRead("weight_logs", "u1", "203.0.113.7", 30, e)

SpecReads == Init /\ [][NextReads]_vars

(* Dates and weights a client can send, and the user_id it may add.        *)
Dates == {1, 2}
Weights == {150, 1000}
BodyOwners == {NoUser, "u2"}

(* One user writing to the three tables with any body, the database        *)
(* failing at will, while time passes.                                     *)
NextWrites ==
  \/ \E t \in Tables, d \in Dates \cup {NoDate}, w \in Weights, o \in BodyOwners,
        e \in {""} \cup DbErrors, at \in {"commit", "refresh"} :
       /\ posts["u1"] < MaxWrites
       /\ DataWrite(t, "u1", "203.0.113.7", Body(d, w, o), e, at)
  \/ Tick

SpecWrites == Init /\ [][NextWrites]_vars

(* The limit query parameter: an int without constraints.                  *)
Limits == {-1, 1, 30}

(* Two users writing weight logs and workouts, and one of them listing     *)
(* them with a limit of their choice.                                      *)
NextLists ==
  \/ \E t \in {"weight_logs", "workout_sessions"}, u \in Users, d \in Dates :
       /\ posts["u1"] + posts["u2"] < MaxListRows
       /\ DataWrite(t, u, "203.0.113.7", Body(d, 150, NoUser), "", "commit")
  \/ \E t \in {"weight_logs", "workout_sessions"}, l \in Limits :
       /\ gets["u1"] < MaxLists
       /\ DataRead(t, "u1", "203.0.113.7", l, "")

SpecLists == Init /\ [][NextLists]_vars

(* A user who has logged workouts, meals and weights, next to another      *)
(* user's weight logs, asks for the recent activity.                       *)
NextRecent ==
  \/ \E t \in Tables, d \in Dates :
       /\ gets["u1"] = 0
       /\ posts["u1"] + posts["u2"] < MaxActivityRows
       /\ DataWrite(t, "u1", "203.0.113.7", Body(d, 150, NoUser), "", "commit")
  \/ /\ gets["u1"] = 0
     /\ posts["u1"] + posts["u2"] < MaxActivityRows
     /\ DataWrite("weight_logs", "u2", "203.0.113.7", Body(2, 150, NoUser), "", "commit")
  \/ /\ gets["u1"] = 0
     /\ RecentActivity("u1", "203.0.113.7", "")

SpecRecent == Init /\ [][NextRecent]_vars

(* Header sets a client can send: credentials in Authorization and Cookie. *)
Authorizations == {"Bearer t1", "Bearer t2"}
Cookies == {"fitagent=s1", "fitagent=s2"}

Headers ==
  {a \cup c \cup h :
     a \in {{}} \cup {{<<"authorization", v>>} : v \in Authorizations},
     c \in {{}} \cup {{<<"cookie", v>>} : v \in Cookies},
     h \in {{}, {<<"hx-request", "true">>}}}

LimitTexts == {"5/day", "1000/hour"}

(* log_rate_limit_hit applied to a request and a limit text.  No code of   *)
(* the application calls it; this is the function on its own.              *)
LogRateLimitHit(path, addr, headers, limit) ==
  /\ log' = <<log_rate_limit_hit(NewReq(path, addr, NoUser, TRUE)
                                   @@ [headers |-> headers], limit)>>
  /\ resp' = NoResp
  /\ err' = NoErr
  /\ UNCHANGED <<now, storage, expirations, admits, reqs, nreq, logins>>
  /\ UNCHANGED data_vars

NextReporter ==
  \E p \in AIPaths, a \in Addrs, h \in Headers, l \in LimitTexts :
    LogRateLimitHit(p, a, h, l)

SpecReporter == Init /\ [][NextReporter]_vars

(* ------------------------------ properties ---------------------------- *)

(* The request r leaves its stage in this step.                            *)
Leaves(r) == CopiesIn(r, reqs') < CopiesIn(r, reqs)

(* The (key, rule) counter of request r.                                   *)
CounterOf(r) == <<get_user_identifier(r), RouteScope(r.path)>>

(* The count of counter ck in the current window.                          *)
Current(ck) == IF expirations[ck] <= now THEN 0 ELSE storage[ck]

(* In this step request r is passed on to its handler.                     *)
Handed(r) ==
  /\ resp' = NoResp
  /\ \E h \in BagToSet(reqs') :
       /\ h.pc = "handler" /\ h.path = r.path /\ h.addr = r.addr
       /\ h.principal = r.principal
       /\ CopiesIn(h, reqs') > CopiesIn(h, reqs)

(* resp answers request r.                                                 *)
Answers(rs, r) ==
  rs.status # 0 /\ rs.path = r.path /\ rs.addr = r.addr /\ rs.principal = r.principal

(* C1: within one window the number of requests admitted on a (key, rule)  *)
(* counter never exceeds the rule's limit, whatever the interleaving of    *)
(* the requests in flight.                                                 *)
C1_AdmittedWithinLimit ==
  \A k \in Keys, p \in AIPaths :
    admits[<<k, RouteScope(p)>>] <= RouteLimit(p).amount

(* A request that arrived while its counter was under quota is rejected    *)
(* because requests in flight with it used the quota up first.             *)
C1_Witness ==
  /\ resp.status = 429
  /\ resp.early
  /\ admits[<<resp.key, RouteScope(resp.path)>>] = RouteLimit(resp.path).amount

(* C2: a non-exempt request whose counter has not reached the limit in the *)
(* current window is passed to its handler and the counter grows by one.   *)
C2_AllowedUnderLimit ==
  [][\A r \in BagToSet(reqs) :
       (/\ r.pc = "deps" /\ Leaves(r)
        /\ ~is_exempt_from_rate_limit(r)
        /\ Current(CounterOf(r)) < RouteLimit(r.path).amount)
       => /\ Handed(r)
          /\ storage'[CounterOf(r)] = Current(CounterOf(r)) + 1]_vars

(* A non-exempt request was admitted as the last one its quota allows.     *)
C2_Witness ==
  \E h \in BagToSet(reqs) :
    /\ h.pc = "handler" /\ ~is_exempt_from_rate_limit(h)
    /\ storage[<<h.key, RouteScope(h.path)>>] = RouteLimit(h.path).amount

(* C3: a request that would take its counter above the limit is answered   *)
(* 429 and the counter is incremented all the same.                        *)
C3_RejectedOverLimit ==
  [][\A r \in BagToSet(reqs) :
       (/\ r.pc = "deps" /\ Leaves(r)
        /\ Current(CounterOf(r)) >= RouteLimit(r.path).amount)
       => /\ Answers(resp', r) /\ resp'.status = 429
          /\ storage'[CounterOf(r)] = Current(CounterOf(r)) + 1]_vars

(* A request was answered 429 and its counter stands above the limit.      *)
C3_Witness ==
  /\ resp.status = 429
  /\ resp.remaining = 0
  /\ storage[<<resp.key, RouteScope(resp.path)>>] > RouteLimit(resp.path).amount

(* C4: once the window of an exhausted counter has elapsed, the next       *)
(* request on it is admitted and the counter restarts at one.              *)
C4_WindowReset ==
  [][\A r \in BagToSet(reqs) :
       (/\ r.pc = "deps" /\ Leaves(r)
        /\ storage[CounterOf(r)] >= RouteLimit(r.path).amount
        /\ expirations[CounterOf(r)] <= now)
       => /\ Handed(r)
          /\ storage'[CounterOf(r)] = 1
          /\ expirations'[CounterOf(r)] = now + RouteLimit(r.path).per]_vars

(* A request is in its handler after the limiter found its counter's       *)
(* previous window exhausted and elapsed.                                  *)
C4_Witness ==
  \E h \in BagToSet(reqs) : h.pc = "handler" /\ h.reopened

(* C5: a step changes no counter but the one of the request the limiter    *)
(* counts in that step: the counter of its own key and its own rule.       *)
C5_CountersIndependent ==
  [][\A ck \in CounterKeys :
       (storage'[ck] # storage[ck] \/ expirations'[ck] # expirations[ck])
       => \E r \in BagToSet(reqs) :
            r.pc = "deps" /\ Leaves(r) /\ ck = CounterOf(r)]_vars

(* One key's workout-plan quota is exhausted while the same key is         *)
(* admitted on the nutrition-plan rule and the other key is untouched.     *)
C5_Witness ==
  \E a \in Addrs :
    /\ storage[<<a, RouteScope(WorkoutPath)>>] >= RATE_LIMITS.ai_workout_plan.amount
    /\ storage[<<a, RouteScope(NutritionPath)>>] = 1
    /\ \E h \in BagToSet(reqs) :
         h.pc = "handler" /\ h.path = NutritionPath /\ h.addr = a
    /\ \A b \in Addrs \ {a}, p \in AIPaths : storage[<<b, RouteScope(p)>>] = 0

(* C6: every authenticated request the limiter has counted on an AI        *)
(* endpoint was counted under the key "user:<id>" of its principal.        *)
C6_UserKeyed ==
  /\ \A h \in BagToSet(reqs) :
       h.pc = "handler" => h.key = "user:" \o h.principal
  /\ (resp.status # 0 /\ resp.path \in AIPaths /\ resp.key # "")
       => resp.key = "user:" \o resp.principal

(* C7: one user calling the workout-plan endpoint one call at a time       *)
(* within a day: calls 1 to 5 are not rejected and return 200 when the     *)
(* provider succeeds, and call 6 is rejected with 429 and remaining 0.     *)
C7_FiveThenReject ==
  [][\A r \in BagToSet(reqs) :
       (Leaves(r) /\ BagCardinality(reqs) = 1 /\ now < Day)
       => /\ (r.pc = "deps" /\ nreq <= 5) => resp'.status # 429
          /\ (r.pc = "handler" /\ nreq <= 5 /\ resp'.outcome = "ok")
               => resp'.status = 200
          /\ (r.pc = "deps" /\ nreq = 6)
               => resp'.status = 429 /\ resp'.remaining = 0]_vars

(* C8: the 11th login attempt from one address within an hour is answered  *)
(* 429, whatever the credentials.                                          *)
C8_EleventhLogin ==
  (/\ resp.status # 0 /\ resp.path = LoginPath
   /\ logins[resp.addr] = 11 /\ now < Hour)
  => resp.status = 429

(* C9: an exempt request (health path or exempt address) is never rejected *)
(* by the limiter and changes no counter.                                  *)
C9_ExemptUntouched ==
  [][\A r \in BagToSet(reqs) :
       (r.pc = "deps" /\ Leaves(r) /\ is_exempt_from_rate_limit(r))
       => /\ storage' = storage
          /\ expirations' = expirations
          /\ resp'.status # 429]_vars

(* C10: a request the limiter rejects never reached its handler: the       *)
(* provider was not called for it and it is no longer in flight.           *)
C10_RejectedNoHandler ==
  resp.status = 429 => ~resp.aiCalled

(* A request that arrived with its quota used up was rejected, and the     *)
(* provider was called only for the requests admitted before it.           *)
C10_Witness ==
  /\ resp.status = 429
  /\ ~resp.early
  /\ ~resp.aiCalled
  /\ admits[<<resp.key, RouteScope(resp.path)>>] = RouteLimit(resp.path).amount

(* The records of the last step that log_rate_limit_hit emitted.           *)
Reported == {i \in DOMAIN log : log[i].logger = "src.rate_limit"}

(* C11: every rejection by the limiter is reported: the step that answers  *)
(* 429 emits exactly one log_rate_limit_hit record, carrying the limit key *)
(* and the path of the rejected request and a limit text.                  *)
C11_RejectionReported ==
  resp.status = 429
  => /\ Cardinality(Reported) = 1
     /\ \A i \in Reported :
          /\ <<"identifier", resp.key>> \in log[i].extra
          /\ <<"path", resp.path>> \in log[i].extra
          /\ \E x \in log[i].extra : x[1] = "limit"

(* C12: no record of log_rate_limit_hit carries the value of the request's *)
(* Authorization or Cookie header.                                         *)
C12_HeadersRedacted ==
  \A i \in Reported :
    \A x \in log[i].extra :
      x[1] \in {"headers.authorization", "headers.cookie"}
      => x[2] \notin Authorizations \cup Cookies

(* C13: a rejection by the limiter is a RateLimitError rendered by         *)
(* rate_limit_handler: 429 with the error's user-facing message as detail. *)
C13_RaisedAsRateLimitError ==
  resp.status = 429
  => /\ err.exc.cls = "RateLimitError"
     /\ err.handler = "rate_limit_handler"
     /\ err.body = [key |-> "detail", text |-> err.exc.user_message]

(* C14: a route without an entry in the table is limited to 1000 requests  *)
(* per hour and key: the 1001st GET /api/weight of one caller within an    *)
(* hour is rejected.                                                       *)
C14_DefaultLimit ==
  [][\A u \in Users :
       (gets[u] = 1000 /\ gets'[u] = 1001 /\ now' < Hour)
       => resp'.status = 429]_vars

(* C15: the 101st POST /api/weight of one user within an hour is rejected  *)
(* with 429, and so is the 201st GET.                                      *)
C15_DataQuota ==
  [][\A u \in Users :
       /\ (posts[u] = RATE_LIMITS.data_post.amount /\ posts'[u] = posts[u] + 1
            /\ now' < Hour)
          => resp'.status = 429
       /\ (gets[u] = RATE_LIMITS.data_get.amount /\ gets'[u] = gets[u] + 1
            /\ now' < Hour)
          => resp'.status = 429]_vars

(* The status table of the error taxonomy.                                 *)
FixedStatus ==
  [ValidationError |-> 400, AuthenticationError |-> 401,
   AuthorizationError |-> 403, NotFoundError |-> 404, ConflictError |-> 409,
   BusinessLogicError |-> 422, RateLimitError |-> 429, AIServiceError |-> 503]

(* C16: a raised domain error of one of the eight mapped kinds is answered *)
(* with the status of its kind, by a handler other than the base-class     *)
(* handler.                                                                *)
C16_FixedStatus ==
  err.exc.cls \in DOMAIN FixedStatus
  => /\ resp.status = FixedStatus[err.exc.cls]
     /\ err.handler # "generic_fit_agent_handler"

(* A ConflictError was raised and answered 409 by its own handler.         *)
C16_Witness ==
  /\ err.exc.cls = "ConflictError"
  /\ err.handler = "conflict_handler"
  /\ resp.status = 409

(* C17: a raised ExternalServiceError is answered with status 503.         *)
C17_ExternalService503 ==
  err.exc.cls = "ExternalServiceError" => resp.status = 503

(* C18: a database exception inside a data endpoint is answered 500 with   *)
(* the fixed generic message, and its text is no part of the body.         *)
C18_UnclassifiedGeneric ==
  (resp.status # 0 /\ resp.outcome \in DbErrors)
  => /\ resp.status = 500
     /\ err.body.text = <<"An unexpected error occurred">>
     /\ \A i \in DOMAIN err.body.text : err.body.text[i] # resp.outcome

(* C19: the response to a domain error does not depend on its technical    *)
(* message or its details: the same kind with the same user-facing message *)
(* argument gets the same status and body whatever those are, and the body *)
(* is not the technical message.                                           *)
C19_OnlyUserMessage ==
  err.exc.cls \in DomainKinds
  => /\ \A m \in Messages, d \in DetailSets :
          LET o == dispatch(FitAgentException(err.exc.cls, m,
                                              err.exc.user_message_arg, d))
          IN o.status = resp.status /\ o.err.body = err.body
     /\ err.body.text # err.exc.message

(* The fixed user-facing message of each plan endpoint.                    *)
TryAgainLater(path) ==
  <<IF path = WorkoutPath
      THEN "Failed to generate workout plan. Please try again later."
      ELSE "Failed to generate nutrition plan. Please try again later.">>

(* C20: when the provider call of a plan endpoint fails, the response is   *)
(* 503 from an AIServiceError, its body is the endpoint's fixed            *)
(* try-again-later message, and the exception's text is no part of it.     *)
C20_ProviderFailureWrapped ==
  (resp.status # 0 /\ resp.outcome \in ProviderErrors)
  => /\ resp.status = 503
     /\ err.exc.cls = "AIServiceError"
     /\ err.body = [key |-> "detail", text |-> TryAgainLater(resp.path)]
     /\ \A i \in DOMAIN err.body.text : err.body.text[i] # resp.outcome

(* The provider call of the nutrition endpoint failed: 503, with the       *)
(* exception's text in the technical message only.                         *)
C20_Witness ==
  /\ resp.status = 503
  /\ resp.path = NutritionPath
  /\ resp.outcome \in ProviderErrors
  /\ \E i \in DOMAIN err.exc.message : err.exc.message[i] = resp.outcome
  /\ err.body.text = TryAgainLater(NutritionPath)

(* The number of rows in the three tables of store d.                      *)
Rows(d) ==
  BagCardinality(d.weight_logs) + BagCardinality(d.meal_logs)
    + BagCardinality(d.workout_sessions)

(* C21: a POST /api/weight with weight_lbs = 1000 (authenticated, date     *)
(* given, database healthy) is answered 400 and writes nothing.            *)
C21_OutOfRangeRejected ==
  [][\A u \in Users, a \in Addrs, d \in Dates, o \in BodyOwners,
        at \in {"commit", "refresh"} :
       DataWrite("weight_logs", u, a, Body(d, 1000, o), "", at)
       => resp'.status = 400 /\ db' = db]_vars

(* C22: a data write that is answered with an error leaves the store as it *)
(* was.                                                                    *)
C22_NoPartialWrite ==
  [][((\E u \in Users : posts'[u] = posts[u] + 1) /\ resp'.status >= 400)
       => db' = db]_vars

(* C23: the resolver's key is determined by the request context's user    *)
(* and the source address alone: "user:" followed by the id when the       *)
(* context carries a user with an id, otherwise the source address,        *)
(* whoever the authenticated principal and whatever the route; resolving   *)
(* it touches no counter of any other key.                                 *)
C23_ResolverKey ==
  /\ \A r \in BagToSet(reqs) :
       r.pc = "handler" =>
         /\ r.key = IF r.state_user \in Users THEN "user:" \o r.state_user
                                              ELSE r.addr
         /\ \A ck \in CounterKeys : ck[1] # r.key => storage[ck] = 0
  /\ \A r1, r2 \in [state_user : Users \cup {NoUser, NoId}, addr : Addrs,
                     principal : Users, path : AIPaths] :
       (r1.state_user = r2.state_user /\ r1.addr = r2.addr)
         => get_user_identifier(r1) = get_user_identifier(r2)

(* A request whose context carries user u1 while the credentials resolve   *)
(* to u2 was keyed "user:u1".                                              *)
C23_Witness ==
  \E r \in BagToSet(reqs) :
    /\ r.pc = "handler"
    /\ r.state_user = "u1"
    /\ r.principal = "u2"
    /\ r.key = "user:u1"

(* C24: a login request is keyed by the IP-only resolver, whatever its     *)
(* credentials, and is counted against the quota of that key.              *)
C24_AuthKeyedByAddress ==
  (resp.status # 0 /\ resp.path = LoginPath)
  => /\ resp.key = get_ip_only(resp)
     /\ \E ck \in CounterKeys : ck[1] = resp.key /\ storage[ck] > 0

(* C25: every response to a request the limiter counted, admitted or       *)
(* rejected, carries the quota headers, and an admitted request whose      *)
(* provider call succeeded is answered 200.                                *)
C25_HeadersOnEveryResponse ==
  (resp.status # 0 /\ resp.path \in AIPaths /\ resp.key # "")
  => /\ resp.remaining # NoHeader
     /\ resp.outcome = "ok" => resp.status = 200

(* C26: a raised domain error of any kind is rendered by one handler, and  *)
(* that handler logs one record whose message carries the error's          *)
(* technical message.                                                      *)
C26_EveryDomainErrorLogged ==
  err.exc.cls \in DomainKinds
  => /\ err.handler # ""
     /\ Len(log) = 1
     /\ \A k \in DOMAIN err.exc.message :
          \E j \in DOMAIN log[1].msg : log[1].msg[j] = err.exc.message[k]

(* The dates of a list are in descending order.                            *)
Descending(items) ==
  \A i \in 1..(Len(items) - 1) : items[i].date >= items[i + 1].date

(* C27: a list answered 200 holds only records of the requester, in        *)
(* descending date order, and at most `limit` of them.                     *)
C27_OwnNewestAtMostLimit ==
  [][((\E u \in Users : gets'[u] = gets[u] + 1) /\ resp'.status = 200
        /\ resp'.path \in {WeightPath, MealsPath, WorkoutsPath})
       => /\ \A i \in DOMAIN listed'.items :
               listed'.items[i].user_id = resp'.principal
          /\ Descending(listed'.items)
          /\ Len(listed'.items) <= listed'.limit]_vars

(* C28: on the plan endpoints a request without credentials is answered   *)
(* 401 and a request with an invalid body is answered 422 when it leaves   *)
(* the dependency stage, and a step that answers 401 or 422 changes no     *)
(* counter; such a request is never answered 429.                          *)
C28_RejectedBeforeCounting ==
  [][/\ \A r \in BagToSet(reqs) :
          (r.pc = "deps" /\ Leaves(r) /\ (r.principal = NoUser \/ ~r.bodyOk))
          => /\ resp'.status = IF r.principal = NoUser THEN 401 ELSE 422
             /\ Answers(resp', r)
             /\ ~Handed(r)
     /\ (resp'.status \in {401, 422} /\ resp'.path \in AIPaths)
          => /\ storage' = storage
             /\ expirations' = expirations
             /\ admits' = admits]_vars

(* The quota of the address is used up and a request without credentials   *)
(* from it is answered 401.                                                *)
C28_Witness ==
  /\ resp.status = 401
  /\ resp.path = WorkoutPath
  /\ resp.principal = NoUser
  /\ storage[<<resp.addr, RouteScope(WorkoutPath)>>] >= RouteLimit(WorkoutPath).amount

(* The rows of user u in table t dated d, and those dated later.           *)
Dated(t, u, d) ==
  BagCount(db[t], {x \in BagToSet(db[t]) : x.user_id = u /\ order_key(t, x) = d})

Later(t, u, d) ==
  BagCount(db[t], {x \in BagToSet(db[t]) : x.user_id = u /\ order_key(t, x) > d})

(* How many rows dated d are among the five newest of user u in table t.   *)
AmongNewest(t, u, d) ==
  LET room == RecentPerTable - Later(t, u, d)
  IN IF room <= 0 THEN 0
     ELSE IF Dated(t, u, d) < room THEN Dated(t, u, d) ELSE room

(* How many activities of table t dated d the list holds.                  *)
Shown(items, t, d) ==
  Cardinality({i \in DOMAIN items : items[i].type = t /\ items[i].date = d})

(* The dates of the stored rows.                                           *)
KnownDates ==
  UNION {{order_key(t, x) : x \in BagToSet(db[t])} : t \in Tables}

(* C30: the recent activity answered 200 holds at most 10 activities, all  *)
(* of the requester, in descending date order across the three types; each *)
(* is one of the five newest rows of its table, and one of those rows is   *)
(* left out only when the list is full and holds nothing older than it.    *)
C30_TenNewestOfUnion ==
  [][(resp'.status = 200 /\ resp'.path = RecentPath)
       => LET items == listed'.items
              u     == resp'.principal
          IN /\ Len(items) <= 10
             /\ \A i \in DOMAIN items : items[i].user_id = u
             /\ Descending(items)
             /\ \A i \in DOMAIN items : items[i].type \in Tables
             /\ \A t \in Tables :
                  /\ Cardinality({i \in DOMAIN items : items[i].type = t}) <= 5
                  /\ \A i \in DOMAIN items :
                       items[i].type = t => AmongNewest(t, u, items[i].date) > 0
                  /\ \A d \in KnownDates :
                       /\ Shown(items, t, d) <= AmongNewest(t, u, d)
                       /\ Shown(items, t, d) < AmongNewest(t, u, d)
                            => Len(items) = 10 /\ items[10].date >= d]_vars

(* More than five workouts and at least eleven candidates in all: the list *)
(* is full, mixes the three types, and leaves out a row of the requester   *)
(* while another user has rows too.                                        *)
C30_Witness ==
  /\ resp.status = 200
  /\ resp.path = RecentPath
  /\ Len(listed.items) = 10
  /\ \A t \in Tables : \E i \in DOMAIN listed.items : listed.items[i].type = t
  /\ BagCount(db.workout_sessions,
              {x \in BagToSet(db.workout_sessions) : x.user_id = resp.principal}) > 5
  /\ \E i \in 1..9 : listed.items[i].date > listed.items[i + 1].date
  /\ \E x \in BagToSet(db.weight_logs) : x.user_id # resp.principal
  /\ \E t \in Tables, d \in Dates :
       Shown(listed.items, t, d) < AmongNewest(t, resp.principal, d)

(* C29: a row that a step adds to a table belongs to the principal of the  *)
(* request answered in that step, on that table's path, whatever user_id   *)
(* the body names; a data write answered 200 adds exactly one row; and a   *)
(* workout posted without completed_date is stored with the current time.  *)
C29_RecordOwnedByRequester ==
  [][/\ \A t \in Tables : \A x \in BagToSet(db'[t]) :
          CopiesIn(x, db'[t]) > CopiesIn(x, db[t])
          => /\ x.user_id = resp'.principal
             /\ resp'.path = TablePath(t)
             /\ t = "workout_sessions" => x.completed_date # NoDate
     /\ ((\E u \in Users : posts'[u] = posts[u] + 1) /\ resp'.status = 200)
          => Rows(db') = Rows(db) + 1
     /\ \A u \in Users, a \in Addrs, w \in Weights, o \in BodyOwners,
           at \in {"commit", "refresh"} :
          DataWrite("workout_sessions", u, a, Body(NoDate, w, o), "", at)
          => \E x \in BagToSet(db'.workout_sessions) :
               /\ x = [user_id |-> u, completed_date |-> now]
               /\ CopiesIn(x, db'.workout_sessions)
                    = CopiesIn(x, db.workout_sessions) + 1]_vars

(* After time has passed, a workout posted without completed_date was      *)
(* stored for its requester with the time of the request.                  *)
C29_Witness ==
  /\ now > 0
  /\ resp.status = 200
  /\ resp.path = WorkoutsPath
  /\ [user_id |-> resp.principal, completed_date |-> now]
       \in BagToSet(db.workout_sessions)

====
